---- MODULE Spec2Model ----
(***************************************************************************)
(* The download engine of INDM (src/src/downloader.ts): one Downloader     *)
(* instance, its start() calls (each an async function that may overlap    *)
(* with an earlier one on the same instance), the segment workers each     *)
(* start() dispatches, pause(), the asynchronous resume-record writes of   *)
(* saveState, and the callers of main.ts (pause-download, resume-download).*)
(*                                                                         *)
(* Scheduling is that of the Node event loop: a step of the model is one   *)
(* callback (a call from a main.ts handler, a settled promise, a timer)    *)
(* with the microtasks it triggers.  Aborting a controller rejects the     *)
(* axios requests bound to its signal at once, so pause() unwinds them in  *)
(* its own step; positioned writes (thread pool) and backoff sleeps        *)
(* (timers) are not cancellable and finish in steps of their own.          *)
(***************************************************************************)
EXTENDS Integers, Sequences, FiniteSets, TLC

\* ---------------------------------------------------------------- bounds
MaxT == 2          \* largest origin size explored, in bytes
MaxN == 2          \* largest numConnections explored
MaxStarts == 2     \* start() calls per behaviour
MaxPauses == 1     \* pause() calls per behaviour
MaxFaults == 1     \* injected failures (network, file system) per behaviour
MaxTicks == 1      \* clock advances per behaviour
MaxChunk == 2      \* largest network buffer, in bytes
PlanMaxT == 12     \* largest totalBytes handed to the planner alone
PlanMaxN == 5      \* largest numConnections handed to the planner alone
MaxResumes == 1    \* resume-download requests for a uuid no longer in activeDownloads
ThrottleTicks == 2 \* clock advances per behaviour of the throttle's specification
LongLen == 120     \* length of the longest base and extension of a file name

\* ----------------------------------------------------- program constants
maxRetries == 10
ProgressIntervalMs == 1000
SaveIntervalMs == 5000
BackoffBaseMs == 1000
DefaultConnections == 8
MaxFileNameLength == 100
BackoffCapMs == 10000

\* Delays are kept in quarter milliseconds: 1000 * 1.5^a is a multiple of
\* 0.25 for every a below the cap, so the arithmetic of line 241 is exact.
DelayGrain == 4

\* One clock advance; Date.now() at construction (epoch milliseconds, far
\* past any interval the code compares it with).
TickMs == ProgressIntervalMs + 1
StartClock == SaveIntervalMs + ProgressIntervalMs

VARIABLES
    \* the origin and the callers
    originSize,              \* T: the size the origin serves
    faults,                  \* failures the environment may still inject
    storm,                   \* the segment whose every ranged request the origin rejects (-1: none)
    startsLeft,              \* start() calls the callers may still make
    pausesLeft,              \* pause() calls the callers may still make
    ticksLeft,               \* clock advances still to come
    now,                     \* Date.now() as last read
    activeDownloads,         \* main.ts: the uuid is in the activeDownloads map
    \* fields of the Downloader instance
    numConnections,
    totalBytes,
    downloadedBytesPerChunk,
    isPaused,
    abortController,         \* id of the current AbortController (= number of start() calls)
    aborted,                 \* ids of the controllers whose signal is aborted
    lastTickTime,
    lastSaveTime,
    \* the start() calls and their workers
    pc,                      \* pc[r]: where start() call r stands
    fileHandle,              \* fileHandle[r]: the inode call r opened (0: none)
    segments,                \* the plan downloadParallel computed last
    worker,                  \* worker[r][i]: downloadChunkWithRetry of call r, segment i
    \* the file system
    tempPath,                \* inode at tempFilePath (0: no file)
    finalPath,               \* inode at finalFilePath (0: no file)
    disk,                    \* disk[ino][offset]: the byte stored (0: never written)
    stateFile,               \* <<>>: no file at stateFilePath, <<rec>>: the record stored
    pendingSaves,            \* fs.writeFile calls of saveState still in flight
    \* the observer
    events,                  \* what the EventEmitter emitted, in order
    \* file names
    optFileName,             \* options.fileName as the caller supplied it ("": none)
    urlName,                 \* the last path segment of the URL ("": none)
    dispositionName,         \* the filename of the origin's Content-Disposition ("": none)
    fileName,                \* the Downloader's fileName
    \* the application around the Downloader
    torn,                    \* the content at stateFilePath is not valid JSON
    resumesLeft              \* resume-download requests for a uuid not in activeDownloads still to come

vars == <<originSize, faults, storm, startsLeft, pausesLeft, ticksLeft, now,
          activeDownloads, numConnections,
          totalBytes, downloadedBytesPerChunk, isPaused, abortController,
          aborted, lastTickTime, lastSaveTime, pc, fileHandle, segments,
          worker, tempPath, finalPath, disk, stateFile, pendingSaves, events,
          optFileName, urlName, dispositionName, fileName, torn, resumesLeft>>

envVars == <<originSize, faults, storm, startsLeft, pausesLeft, ticksLeft, now,
            activeDownloads>>
fsVars == <<tempPath, finalPath, disk, stateFile, pendingSaves>>
nameVars == <<optFileName, urlName, dispositionName, fileName>>
appVars == <<torn, resumesLeft>>

Runs == 1..MaxStarts
Offsets == 0..(MaxT - 1)
Segs == 0..(numConnections - 1)

\* The origin's byte at an offset (never 0, which marks a hole of the file).
OriginByte(o) == o + 1

Min(a, b) == IF a < b THEN a ELSE b

\* ------------------------------------------------------------ file names
\* A name is the sequence of its characters; the empty sequence stands for
\* an absent or empty one.
NoName == <<>>
MineBin == <<"m", "i", "n", "e", ".", "b", "i", "n">>
FileZip == <<"f", "i", "l", "e", ".", "z", "i", "p">>
RePortPdf == <<"r", "e", " ", "p", "o", "r", "t", ".", "p", "d", "f">>
DownloadedFile == <<"d", "o", "w", "n", "l", "o", "a", "d", "e", "d", "_",
                    "f", "i", "l", "e">>

\* The character c, n times.
Repeat(c, n) == [k \in 1..n |-> c]

\* A name with a base of b characters and, when e > 0, an extension of e
\* characters, its dot included.
Named(b, e) ==
    Repeat("a", b) \o (IF e = 0 THEN <<>> ELSE <<".">> \o Repeat("x", e - 1))

\* Names around and beyond the length sanitizeFileName truncates to.
LongNames ==
    {Named(b, e) : b \in {0, 2, MaxFileNameLength - 4, LongLen},
                   e \in {0, 4, MaxFileNameLength, MaxFileNameLength + 1,
                          LongLen}}

CallerNames == {NoName, MineBin}
UrlNames == {NoName, FileZip}
DispositionNames == {NoName, RePortPdf} \cup LongNames

\* The characters of the class [a-zA-Z0-9._-], line 101.
SafeChars ==
    {"a", "b", "c", "d", "e", "f", "g", "h", "i", "j", "k", "l", "m",
     "n", "o", "p", "q", "r", "s", "t", "u", "v", "w", "x", "y", "z",
     "A", "B", "C", "D", "E", "F", "G", "H", "I", "J", "K", "L", "M",
     "N", "O", "P", "Q", "R", "S", "T", "U", "V", "W", "X", "Y", "Z",
     "0", "1", "2", "3", "4", "5", "6", "7", "8", "9", ".", "_", "-"}

\* name.replace(/[^a-zA-Z0-9._-]/g, '_'), line 101.
Replaced(name) ==
    [k \in 1..Len(name) |-> IF name[k] \in SafeChars THEN name[k] ELSE "_"]

\* The position of the last dot of a name, 0 when it has none.
LastDot(name) ==
    LET dots == {k \in 1..Len(name) : name[k] = "."}
    IN  IF dots = {} THEN 0 ELSE CHOOSE k \in dots : \A j \in dots : j <= k

\* path.extname of a name without separators, line 103: from the last dot
\* on; empty when there is no dot, when the last dot is the first character,
\* and for "..".
ExtName(name) ==
    LET d == LastDot(name)
    IN  IF d <= 1 \/ name = <<".", ".">> THEN <<>>
        ELSE SubSeq(name, d, Len(name))

\* path.basename(name, ext) of a name without separators, line 104.
BaseName(name, ext) == SubSeq(name, 1, Len(name) - Len(ext))

\* String.prototype.substring(0, k): k below 0 counts as 0, k beyond the
\* length as the length.
Substring(name, k) ==
    SubSeq(name, 1, IF k < 0 THEN 0 ELSE Min(k, Len(name)))

\* sanitizeFileName, lines 100-108.
sanitizeFileName(name) ==
    LET clean == Replaced(name)
        ext == ExtName(clean)
        base == BaseName(clean, ext)
    IN  IF Len(clean) > MaxFileNameLength
        THEN Substring(base, MaxFileNameLength - Len(ext)) \o ext
        ELSE clean

\* getFileNameFromUrl, lines 89-98, on the last segment of the URL's path.
getFileNameFromUrl(name) ==
    sanitizeFileName(IF name = NoName THEN DownloadedFile ELSE name)

\* The constructor, line 61.
ConstructedName(opt, url) ==
    IF opt # NoName THEN opt ELSE getFileNameFromUrl(url)

\* start(), lines 127-134: the name after the probe's response.
ProbedName(name, disposition) ==
    IF disposition # NoName THEN sanitizeFileName(disposition) ELSE name


\* ------------------------------------------------------------- the plan
\* downloadParallel, lines 212-217.
\* A chunk size rounded up instead of down.
ChunkSizeCeil(T, N) == (T + N - 1) \div N

ChunkSize(T, N) == T \div N

SegStart(T, N, i) == i * ChunkSize(T, N)

\* The last segment cut like the others, its remainder dropped.
SegEndNoRemainder(T, N, i) == SegStart(T, N, i) + ChunkSize(T, N) - 1

SegEnd(T, N, i) ==
    IF i = N - 1 THEN T - 1 ELSE SegStart(T, N, i) + ChunkSize(T, N) - 1

Plan(T, N) == [k \in 1..N |-> [start |-> SegStart(T, N, k - 1),
                               end |-> SegEnd(T, N, k - 1)]]

RECURSIVE SumTo(_, _)
SumTo(f, n) == IF n < 0 THEN 0 ELSE f[n] + SumTo(f, n - 1)

\* checkAndEmitProgress, line 281: the reduce over downloadedBytesPerChunk.
TotalDownloaded(dl) == SumTo(dl, Cardinality(DOMAIN dl) - 1)

\* ------------------------------------------------------- resume record
\* saveState, lines 190-199 (the fields that vary in the model).
DownloadState(tb, dl) ==
    [totalBytes |-> tb, downloadedBytesPerChunk |-> dl,
     numConnections |-> numConnections]

\* JSON.stringify(state), line 201: the text of a record, its numbers in
\* the order written, the array's elements last.
Stringify(state) ==
    <<state.totalBytes, state.numConnections>> \o
        [k \in 1..Cardinality(DOMAIN state.downloadedBytesPerChunk) |->
            state.downloadedBytesPerChunk[k - 1]]

\* JSON.parse, main.ts line 524: the object a text encodes.
Parse(text) ==
    [totalBytes |-> text[1],
     numConnections |-> text[2],
     downloadedBytesPerChunk |-> [i \in 0..(Len(text) - 3) |-> text[i + 3]]]

\* The options of a fresh start (main.ts line 531): no number among them.
NoOptions ==
    [totalBytes |-> 0, numConnections |-> 0,
     downloadedBytesPerChunk |-> [i \in {} |-> 0]]

\* A constructor that starts every counter from zero.
ConstructedZeroed(options) ==
    LET n == IF options.numConnections # 0 THEN options.numConnections
             ELSE DefaultConnections
    IN  [numConnections |-> n,
         downloadedBytesPerChunk |-> [i \in 0..(n - 1) |-> 0],
         totalBytes |-> options.totalBytes]

\* The constructor, lines 58, 72 and 73: the fields it takes from its
\* options, with the defaults of `||` for what is absent (or zero).
Constructed(options) ==
    LET n == IF options.numConnections # 0 THEN options.numConnections
             ELSE DefaultConnections
    IN  [numConnections |-> n,
         downloadedBytesPerChunk |->
             IF DOMAIN options.downloadedBytesPerChunk # {}
             THEN options.downloadedBytesPerChunk
             ELSE [i \in 0..(n - 1) |-> 0],
         totalBytes |-> options.totalBytes]

\* ------------------------------------------------------------- events
\* An event: its type, the start() call that emitted it (0: pause()), the
\* total a `progress` reports and the clock reading it was computed at.
Ev(type, by, total) == [type |-> type, by |-> by, total |-> total, at |-> 0]

\* An outer catch that reports every failure, aborted signal or not.
OuterCatchLoud(evs, r, ctlAborted) == Append(evs, Ev("error", r, 0))

\* start(), lines 181-186: the outer catch.
OuterCatch(evs, r, ctlAborted) ==
    IF ctlAborted THEN evs ELSE Append(evs, Ev("error", r, 0))

\* ------------------------------------------------------------ workers
NoWorker == [phase |-> "none", start |-> 0, end |-> 0, attempt |-> 0,
             sig |-> 0, pos |-> 0, off |-> 0, buf |-> <<>>, requests |-> 0,
             delay |-> 0]

\* A worker between or after its ranged requests.  One that returned keeps
\* nothing: its arguments died with the call.
Rest(w, phase) ==
    IF phase = "done" THEN [NoWorker EXCEPT !.phase = "done"]
    ELSE [w EXCEPT !.phase = phase, !.sig = 0, !.pos = 0, !.off = 0,
                   !.buf = <<>>, !.delay = 0]

\* The delay of line 241 without its cap.
BackoffDelayUncapped(attempt) ==
    (DelayGrain * BackoffBaseMs * 3^attempt) \div 2^attempt

\* downloadChunkWithRetry, line 241:
\* Math.min(1000 * Math.pow(1.5, attempt), 10000), in quarter milliseconds.
BackoffDelay(attempt) ==
    Min((DelayGrain * BackoffBaseMs * 3^attempt) \div 2^attempt,
        DelayGrain * BackoffCapMs)

\* downloadChunkWithRetry, lines 241-242: the worker sleeps for the delay.
Sleeping(w) == [Rest(w, "sleep") EXCEPT !.delay = BackoffDelay(w.attempt)]

\* A catch block that retries while attempt <= maxRetries + 1.
AfterFailureOneMore(w, ctlAborted) ==
    IF ctlAborted THEN Rest(w, "done")
    ELSE IF w.attempt <= maxRetries + 1 THEN Sleeping(w)
    ELSE Rest(w, "failed")

\* downloadChunkWithRetry, lines 236-247: the catch block.
AfterFailure(w, ctlAborted) ==
    IF ctlAborted THEN Rest(w, "done")
    ELSE IF w.attempt <= maxRetries THEN Sleeping(w)
    ELSE Rest(w, "failed")

\* A supervisor that does not look at the signal before an attempt.
AttemptUnchecked(w, attempt, ctl, ctlAborted) ==
    [w EXCEPT !.phase = "req", !.attempt = attempt, !.sig = ctl,
              !.pos = 0, !.off = 0, !.buf = <<>>, !.delay = 0,
              !.requests = @ + 1]

\* downloadChunkWithRetry, lines 231-235, and downloadChunk, lines 251-262:
\* the entry check and the ranged request, bound to the current signal.
Attempt(w, attempt, ctl, ctlAborted) ==
    IF ctlAborted THEN Rest([w EXCEPT !.attempt = attempt], "done")
    ELSE [w EXCEPT !.phase = "req", !.attempt = attempt, !.sig = ctl,
                   !.pos = 0, !.off = 0, !.buf = <<>>, !.delay = 0,
                   !.requests = @ + 1]

\* An await that a throwing worker never ends.
JoinedIgnoringFailure(p, ws) ==
    IF p # "download" THEN p
    ELSE IF \A i \in DOMAIN ws : ws[i].phase \in {"none", "done"} THEN "close"
    ELSE "download"

\* start(), lines 161-173: what awaiting Promise.all leads to.
Joined(p, ws) ==
    IF p # "download" THEN p
    ELSE IF \E i \in DOMAIN ws : ws[i].phase = "failed" THEN "closeErr"
    ELSE IF \A i \in DOMAIN ws : ws[i].phase \in {"none", "done"} THEN "close"
    ELSE "download"

\* ------------------------------------------------------------ Init
\* The state startDownload (main.ts lines 436-441) leaves: a fresh
\* Downloader (constructor, lines 52-81) held in activeDownloads.
InitConstructed(T, options, f, k, st, pa, ti) ==
    /\ originSize = T
    /\ faults = f
    /\ storm = k
    /\ startsLeft = st
    /\ pausesLeft = pa
    /\ ticksLeft = ti
    /\ now = StartClock
    /\ activeDownloads = TRUE
    /\ numConnections = Constructed(options).numConnections
    /\ totalBytes = Constructed(options).totalBytes
    /\ downloadedBytesPerChunk = Constructed(options).downloadedBytesPerChunk
    /\ isPaused = FALSE
    /\ abortController = 0
    /\ aborted = {}
    /\ lastTickTime = 0
    /\ lastSaveTime = 0
    /\ pc = [r \in Runs |-> "none"]
    /\ fileHandle = [r \in Runs |-> 0]
    /\ segments = <<>>
    /\ worker = [r \in Runs |->
                     [i \in 0..(Constructed(options).numConnections - 1) |->
                         NoWorker]]
    /\ tempPath = 0
    /\ finalPath = 0
    /\ disk = [ino \in Runs |-> [o \in Offsets |-> 0]]
    /\ stateFile = <<>>
    /\ pendingSaves = {}
    /\ events = <<>>
    /\ torn = FALSE

\* The same for the options numConnections = N and totalBytes = tb, the
\* counters left to the constructor.
InitCore(T, N, tb, f, k, st, pa, ti) ==
    InitConstructed(T, [NoOptions EXCEPT !.numConnections = N,
                                         !.totalBytes = tb],
                    f, k, st, pa, ti)

\* The names startDownload was called with, and the name the constructor
\* derives from them.
InitNames(opt, url, disposition) ==
    /\ optFileName = opt
    /\ urlName = url
    /\ dispositionName = disposition
    /\ fileName = ConstructedName(opt, url)

\* A download whose name comes from its URL, in a session that is never
\* restarted.
InitWith(T, N, tb, f, k, st, pa, ti) ==
    /\ InitCore(T, N, tb, f, k, st, pa, ti)
    /\ InitNames(NoName, FileZip, NoName)
    /\ resumesLeft = 0

\* An origin that fails now and then, callers that pause and resume.
InitCalm ==
    \E T \in 0..MaxT, N \in 1..MaxN :
        InitWith(T, N, 0, MaxFaults, -1, MaxStarts, MaxPauses, MaxTicks)

\* An origin that rejects every ranged request of one segment.
InitStorm ==
    \E T \in 1..MaxT, N \in 1..MaxN, k \in 0..(MaxN - 1) :
        /\ k < N
        /\ SegStart(T, N, k) <= SegEnd(T, N, k)
        /\ InitWith(T, N, 0, 0, k, 1, Min(1, MaxPauses), 0)

Init == InitCalm \/ InitStorm

\* ------------------------------------------------------------ start()
\* start(), lines 141-157: emit `start`, make the directories, request the
\* first snapshot and open the temp file.  mkdirSync can only throw while
\* the output directory is still missing.
PrepareWith(r, state, ctlAborted) ==
    \/ /\ events' = Append(events, Ev("start", r, 0))
       /\ pendingSaves' = pendingSaves \cup {state}
       /\ pc' = [pc EXCEPT ![r] = "open"]
       /\ faults' = faults
    \/ /\ faults > 0
       /\ tempPath = 0
       /\ finalPath = 0
       /\ events' = OuterCatch(Append(events, Ev("start", r, 0)), r, ctlAborted)
       /\ pc' = [pc EXCEPT ![r] = "done"]
       /\ faults' = faults - 1
       /\ pendingSaves' = pendingSaves

\* The same on the instance as it stands, its totalBytes being tb.
Prepare(r, tb, ctlAborted) ==
    PrepareWith(r, DownloadState(tb, downloadedBytesPerChunk), ctlAborted)

\* start(), lines 110-125 (and on to line 157 when the probe is skipped).
\* Called by startDownload and, for a uuid still in activeDownloads, by the
\* resume-download handler (main.ts lines 507-514).
Start ==
    /\ activeDownloads
    /\ startsLeft > 0
    /\ startsLeft' = startsLeft - 1
    /\ \E dt \in 0..Min(1, ticksLeft) :
        /\ ticksLeft' = ticksLeft - dt
        /\ now' = now + dt * TickMs
    /\ LET r == abortController + 1 IN
        /\ isPaused' = FALSE
        /\ abortController' = r
        /\ lastTickTime' = now'
        /\ IF totalBytes = 0
           THEN /\ pc' = [pc EXCEPT ![r] = "probe"]
                /\ UNCHANGED <<events, pendingSaves, faults>>
           ELSE Prepare(r, totalBytes, FALSE)
    /\ UNCHANGED <<originSize, storm, pausesLeft, activeDownloads,
                   numConnections, totalBytes, downloadedBytesPerChunk, aborted,
                   lastSaveTime, fileHandle, segments, worker, tempPath,
                   finalPath, disk, stateFile>>
    /\ UNCHANGED <<nameVars, appVars>>

\* start(), lines 120-139: the HEAD response arrives with a content-length.
ProbeDone(r) ==
    /\ pc[r] = "probe"
    /\ fileName' = ProbedName(fileName, dispositionName)
    /\ totalBytes' = originSize
    /\ Prepare(r, originSize, abortController \in aborted)
    /\ UNCHANGED <<originSize, storm, startsLeft, pausesLeft, ticksLeft, now,
                   activeDownloads, numConnections,
                   downloadedBytesPerChunk, isPaused, abortController, aborted,
                   lastTickTime, lastSaveTime, fileHandle, segments, worker,
                   tempPath, finalPath, disk, stateFile>>
    /\ UNCHANGED <<optFileName, urlName, dispositionName, appVars>>

\* start(), lines 120-137: the HEAD request fails (transport error, timeout)
\* or its response carries no content-length.
ProbeFail(r) ==
    /\ pc[r] = "probe"
    /\ faults > 0
    /\ faults' = faults - 1
    /\ events' = OuterCatch(events, r, abortController \in aborted)
    /\ pc' = [pc EXCEPT ![r] = "done"]
    /\ UNCHANGED <<originSize, storm, startsLeft, pausesLeft, ticksLeft, now,
                   activeDownloads, numConnections,
                   totalBytes, downloadedBytesPerChunk, isPaused,
                   abortController, aborted, lastTickTime, lastSaveTime,
                   fileHandle, segments, worker, fsVars>>
    /\ UNCHANGED <<nameVars, appVars>>

\* A dispatch that forgets the bytes already counted.
DispatchFromStart(ctl, ctlAborted) ==
    [i \in Segs |->
        LET start == SegStart(totalBytes, numConnections, i)
            end == SegEnd(totalBytes, numConnections, i)
        IN  IF start <= end
            THEN Attempt([NoWorker EXCEPT !.start = start, !.end = end],
                         1, ctl, ctlAborted)
            ELSE NoWorker]

\* A dispatch that skips no segment.
DispatchAll(ctl, ctlAborted) ==
    [i \in Segs |->
        LET start == SegStart(totalBytes, numConnections, i)
            end == SegEnd(totalBytes, numConnections, i)
            currentStart == start + downloadedBytesPerChunk[i]
        IN  Attempt([NoWorker EXCEPT !.start = currentStart, !.end = end],
                    1, ctl, ctlAborted)]

\* downloadParallel, lines 215-225: the workers dispatched for call r.
Dispatch(ctl, ctlAborted) ==
    [i \in Segs |->
        LET start == SegStart(totalBytes, numConnections, i)
            end == SegEnd(totalBytes, numConnections, i)
            currentStart == start + downloadedBytesPerChunk[i]
        IN  IF currentStart <= end
            THEN Attempt([NoWorker EXCEPT !.start = currentStart, !.end = end],
                         1, ctl, ctlAborted)
            ELSE NoWorker]

\* start(), lines 152-161: the temp file is opened ('r+', else 'w') and
\* downloadParallel dispatches the workers.
OpenDone(r) ==
    /\ pc[r] = "open"
    /\ LET ino == IF tempPath # 0 THEN tempPath ELSE r
           ws == Dispatch(abortController, abortController \in aborted)
       IN  /\ tempPath' = ino
           /\ disk' = IF tempPath # 0 THEN disk
                      ELSE [disk EXCEPT ![r] = [o \in Offsets |-> 0]]
           /\ fileHandle' = [fileHandle EXCEPT ![r] = ino]
           /\ segments' = Plan(totalBytes, numConnections)
           /\ worker' = [worker EXCEPT ![r] = ws]
           /\ pc' = [pc EXCEPT ![r] = Joined("download", ws)]
    /\ UNCHANGED <<envVars, numConnections, totalBytes,
                   downloadedBytesPerChunk, isPaused, abortController, aborted,
                   lastTickTime, lastSaveTime, finalPath, stateFile,
                   pendingSaves, events>>
    /\ UNCHANGED <<nameVars, appVars>>

\* start(), lines 153-157: both opens of the temp file throw.
OpenFail(r) ==
    /\ pc[r] = "open"
    /\ faults > 0
    /\ faults' = faults - 1
    /\ events' = OuterCatch(events, r, abortController \in aborted)
    /\ pc' = [pc EXCEPT ![r] = "done"]
    /\ UNCHANGED <<originSize, storm, startsLeft, pausesLeft, ticksLeft, now,
                   activeDownloads, numConnections,
                   totalBytes, downloadedBytesPerChunk, isPaused,
                   abortController, aborted, lastTickTime, lastSaveTime,
                   fileHandle, segments, worker, fsVars>>
    /\ UNCHANGED <<nameVars, appVars>>


\* ------------------------------------------------------ segment workers
\* Worker i of call r becomes w; the call moves on when Promise.all settles.
SetWorker(r, i, w) ==
    LET ws == [worker[r] EXCEPT ![i] = w] IN
        /\ worker' = [worker EXCEPT ![r] = ws]
        /\ pc' = [pc EXCEPT ![r] = Joined(pc[r], ws)]

\* downloadChunk, lines 251-264: the ranged response arrives; the origin
\* streams the bytes of the requested range from its first offset on.
ResponseArrives(r, i) ==
    LET w == worker[r][i] IN
        /\ w.phase = "req"
        /\ storm # i
        /\ SetWorker(r, i, [w EXCEPT !.phase = "stream", !.pos = w.start,
                                     !.off = w.start])
        /\ UNCHANGED <<envVars, numConnections, totalBytes,
                       downloadedBytesPerChunk, isPaused, abortController,
                       aborted, lastTickTime, lastSaveTime, fileHandle,
                       segments, fsVars, events>>
        /\ UNCHANGED <<nameVars, appVars>>

\* downloadChunk throws (transport error, timeout, bad status, a stream the
\* transport breaks off) and downloadChunkWithRetry, lines 236-247, catches
\* it.
RequestFails(r, i) ==
    LET w == worker[r][i] IN
        /\ \/ /\ w.phase \in {"req", "stream"}
              /\ storm # i
              /\ faults > 0
              /\ faults' = faults - 1
           \/ /\ w.phase = "req"
              /\ storm = i
              /\ faults' = faults
        /\ SetWorker(r, i, AfterFailure(w, abortController \in aborted))
        /\ UNCHANGED <<originSize, storm, startsLeft, pausesLeft, ticksLeft,
                       now, activeDownloads, numConnections, totalBytes,
                       downloadedBytesPerChunk, isPaused, abortController,
                       aborted, lastTickTime, lastSaveTime, fileHandle,
                       segments, fsVars, events>>
        /\ UNCHANGED <<nameVars, appVars>>

\* A loop body that writes every buffer, whatever the signal says.
BufferArrivesUnchecked(r, i, n) ==
    LET w == worker[r][i] IN
        /\ w.phase = "stream"
        /\ n \in 1..Min(MaxChunk, w.end - w.off + 1)
        /\ SetWorker(r, i,
              IF pc[r] # "download" THEN AfterFailure(w, FALSE)
              ELSE [w EXCEPT !.phase = "write",
                             !.buf = [k \in 1..n |-> OriginByte(w.off + k - 1)],
                             !.off = w.off + n])
        /\ UNCHANGED <<envVars, numConnections, totalBytes,
                       downloadedBytesPerChunk, isPaused, abortController,
                       aborted, lastTickTime, lastSaveTime, fileHandle,
                       segments, fsVars, events>>
        /\ UNCHANGED <<nameVars, appVars>>

\* downloadChunk, lines 266-269: a buffer of n bytes arrives; the worker
\* returns if the current signal is aborted, else issues the positioned
\* write, which is rejected at once on a handle already being closed.
BufferArrives(r, i, n) ==
    LET w == worker[r][i] IN
        /\ w.phase = "stream"
        /\ n \in 1..Min(MaxChunk, w.end - w.off + 1)
        /\ SetWorker(r, i,
              IF abortController \in aborted THEN Rest(w, "done")
              ELSE IF pc[r] # "download" THEN AfterFailure(w, FALSE)
              ELSE [w EXCEPT !.phase = "write",
                             !.buf = [k \in 1..n |-> OriginByte(w.off + k - 1)],
                             !.off = w.off + n])
        /\ UNCHANGED <<envVars, numConnections, totalBytes,
                       downloadedBytesPerChunk, isPaused, abortController,
                       aborted, lastTickTime, lastSaveTime, fileHandle,
                       segments, fsVars, events>>
        /\ UNCHANGED <<nameVars, appVars>>

\* downloadChunk, lines 266-274: the response ends cleanly before the last
\* byte of the range was delivered (the origin's file shrank after the
\* probe, or the origin answers with a shorter range).  The for-await loop
\* ends and downloadChunk returns; nothing compares the bytes received
\* with end - start + 1.
StreamEnds(r, i) ==
    LET w == worker[r][i] IN
        /\ w.phase = "stream"
        /\ w.off <= w.end
        /\ faults > 0
        /\ faults' = faults - 1
        /\ SetWorker(r, i, Rest(w, "done"))
        /\ UNCHANGED <<originSize, storm, startsLeft, pausesLeft, ticksLeft,
                       now, activeDownloads, numConnections, totalBytes,
                       downloadedBytesPerChunk, isPaused, abortController,
                       aborted, lastTickTime, lastSaveTime, fileHandle,
                       segments, fsVars, events>>
        /\ UNCHANGED <<nameVars, appVars>>

\* fileHandle.write(chunk, 0, chunk.length, currentPos), line 269.
WriteAt(file, pos, buf) ==
    [o \in DOMAIN file |->
        IF pos <= o /\ o < pos + Len(buf) THEN buf[o - pos + 1] ELSE file[o]]

\* The counter set to, not advanced by, the length of the buffer written.
CountedFresh(dl, i, n) == [dl EXCEPT ![i] = n]

\* downloadChunk, line 272: the counter after a write of n bytes.
Counted(dl, i, n) == [dl EXCEPT ![i] = @ + n]

\* downloadChunk, lines 264-274, after a write: where the loop goes next.
\* A stream whose signal was aborted meanwhile is destroyed and throws.
AfterWrite(w, n, ctlAborted) ==
    IF w.sig \in aborted THEN AfterFailure(w, ctlAborted)
    ELSE IF w.pos + n > w.end THEN Rest(w, "done")
    ELSE [w EXCEPT !.phase = "stream", !.pos = w.pos + n, !.buf = <<>>]

\* checkAndEmitProgress without its throttle: every call emits and saves on
\* the 5 s cadence.
ProbedUnthrottled(r, t, dl) ==
    LET save == t - lastSaveTime > SaveIntervalMs
    IN  [events |-> Append(events,
                           [Ev("progress", r, TotalDownloaded(dl))
                               EXCEPT !.at = t]),
         lastTickTime |-> t,
         lastSaveTime |-> IF save THEN t ELSE lastSaveTime,
         pendingSaves |-> IF save
                          THEN pendingSaves \cup {DownloadState(totalBytes, dl)}
                          ELSE pendingSaves]

\* checkAndEmitProgress, lines 277-291, at clock reading t with the counters
\* dl: the events, lastTickTime, lastSaveTime and the snapshots requested.
Probed(r, t, dl) ==
    LET tick == t - lastTickTime > ProgressIntervalMs
        save == tick /\ t - lastSaveTime > SaveIntervalMs
    IN  [events |-> IF tick
                    THEN Append(events,
                             [Ev("progress", r, TotalDownloaded(dl))
                                 EXCEPT !.at = t])
                    ELSE events,
         lastTickTime |-> IF tick THEN t ELSE lastTickTime,
         lastSaveTime |-> IF save THEN t ELSE lastSaveTime,
         pendingSaves |-> IF save
                          THEN pendingSaves \cup {DownloadState(totalBytes, dl)}
                          ELSE pendingSaves]

\* downloadChunk, lines 269-273: the positioned write completes, the counter
\* grows by the buffer's length and progress is probed.
WriteDone(r, i) ==
    LET w == worker[r][i]
        n == Len(w.buf)
        dl == Counted(downloadedBytesPerChunk, i, n)
    IN  /\ w.phase = "write"
        /\ disk' = [disk EXCEPT ![fileHandle[r]] = WriteAt(@, w.pos, w.buf)]
        /\ downloadedBytesPerChunk' = dl
        /\ \E dt \in 0..Min(1, ticksLeft) :
            /\ ticksLeft' = ticksLeft - dt
            /\ now' = now + dt * TickMs
        /\ LET p == Probed(r, now', dl) IN
            /\ events' = p.events
            /\ lastTickTime' = p.lastTickTime
            /\ lastSaveTime' = p.lastSaveTime
            /\ pendingSaves' = p.pendingSaves
        /\ SetWorker(r, i, AfterWrite(w, n, abortController \in aborted))
        /\ UNCHANGED <<originSize, faults, storm, startsLeft, pausesLeft,
                       activeDownloads, numConnections, totalBytes, isPaused,
                       abortController, aborted, fileHandle, segments,
                       tempPath, finalPath, stateFile>>
        /\ UNCHANGED <<nameVars, appVars>>

\* downloadChunkWithRetry, lines 242-243 and 231-235: the backoff timer
\* fires and the next attempt starts.
RetryAfterDelay(r, i) ==
    LET w == worker[r][i] IN
        /\ w.phase = "sleep"
        /\ SetWorker(r, i, Attempt(w, w.attempt + 1, abortController,
                                   abortController \in aborted))
        /\ UNCHANGED <<envVars, numConnections, totalBytes,
                       downloadedBytesPerChunk, isPaused, abortController,
                       aborted, lastTickTime, lastSaveTime, fileHandle,
                       segments, fsVars, events>>
        /\ UNCHANGED <<nameVars, appVars>>


\* ------------------------------------------------------------ pause()
\* What abort() does to a worker: a ranged request or a stream bound to the
\* aborted signal throws, and the catch block (line 237) returns.
Unwound(w, ctl) ==
    IF w.phase \in {"req", "stream"} /\ w.sig = ctl
    THEN AfterFailure(w, TRUE)
    ELSE w

\* pause(), lines 204-209, with the rejections abort() triggers: the probe
\* bound to the aborted signal rejects into the outer catch (no `error`,
\* the signal being aborted), the workers unwind.
PauseCall ==
    LET ws == [r \in Runs |->
                  [i \in Segs |-> Unwound(worker[r][i], abortController)]]
    IN  /\ abortController >= 1
        /\ pausesLeft > 0
        /\ pausesLeft' = pausesLeft - 1
        /\ isPaused' = TRUE
        /\ aborted' = aborted \cup {abortController}
        /\ pendingSaves' = pendingSaves \cup
               {DownloadState(totalBytes, downloadedBytesPerChunk)}
        /\ events' = Append(events, Ev("paused", 0, 0))
        /\ worker' = ws
        /\ pc' = [r \in Runs |->
                    IF pc[r] = "probe" /\ r = abortController THEN "done"
                    ELSE Joined(pc[r], ws[r])]
        /\ UNCHANGED <<originSize, faults, storm, startsLeft, ticksLeft, now,
                       numConnections, totalBytes, downloadedBytesPerChunk,
                       abortController, lastTickTime, lastSaveTime, fileHandle,
                       segments, tempPath, finalPath, disk, stateFile>>
        /\ UNCHANGED <<nameVars, appVars>>

\* The pause-download handler, main.ts lines 500-505.
Pause ==
    /\ activeDownloads
    /\ PauseCall
    /\ UNCHANGED activeDownloads

\* ------------------------------------------------- the end of start()
\* start(), lines 163-170: the handle is closed after every worker returned.
\* Not paused: the final file is replaced by the temp file (renameSync
\* throws when the temp file is gone, and the catch of line 172 rethrows to
\* the outer catch), the resume record is removed, `complete` is emitted
\* and main.ts (line 477) drops the uuid from activeDownloads.
CloseDone(r) ==
    /\ pc[r] = "close"
    /\ pc' = [pc EXCEPT ![r] = "done"]
    /\ IF ~isPaused /\ abortController \notin aborted
       THEN IF tempPath = 0
            THEN /\ finalPath' = 0
                 /\ events' = Append(events, Ev("error", r, 0))
                 /\ UNCHANGED <<tempPath, stateFile, torn, activeDownloads>>
            ELSE /\ finalPath' = tempPath
                 /\ tempPath' = 0
                 /\ stateFile' = <<>>
                 /\ torn' = FALSE
                 /\ events' = Append(events, Ev("complete", r, 0))
                 /\ activeDownloads' = FALSE
       ELSE UNCHANGED <<tempPath, finalPath, stateFile, torn, events,
                        activeDownloads>>
    /\ UNCHANGED <<originSize, faults, storm, startsLeft, pausesLeft,
                   ticksLeft, now, numConnections,
                   totalBytes, downloadedBytesPerChunk, isPaused,
                   abortController, aborted, lastTickTime, lastSaveTime,
                   fileHandle, segments, worker, disk, pendingSaves>>
    /\ UNCHANGED <<nameVars, resumesLeft>>

\* start(), lines 172-186: the handle is closed after a worker threw; close
\* waits for the positioned writes still in flight on the handle.
CloseAfterError(r) ==
    /\ pc[r] = "closeErr"
    /\ \A i \in Segs : worker[r][i].phase # "write"
    /\ pc' = [pc EXCEPT ![r] = "done"]
    /\ events' = IF abortController \in aborted
                 THEN Append(events, Ev("paused", r, 0))
                 ELSE Append(events, Ev("error", r, 0))
    /\ UNCHANGED <<envVars, numConnections, totalBytes,
                   downloadedBytesPerChunk, isPaused, abortController, aborted,
                   lastTickTime, lastSaveTime, fileHandle, segments, worker,
                   fsVars>>
    /\ UNCHANGED <<nameVars, appVars>>

\* ------------------------------------------------------- environment
\* saveState, line 201: an fs.writeFile in flight reaches the disk.  The
\* thread pool completes the writes in any order.
SaveLands(s) ==
    /\ s \in pendingSaves
    /\ stateFile' = <<s>>
    /\ torn' = FALSE
    /\ pendingSaves' = pendingSaves \ {s}
    /\ UNCHANGED <<envVars, numConnections, totalBytes,
                   downloadedBytesPerChunk, isPaused, abortController, aborted,
                   lastTickTime, lastSaveTime, pc, fileHandle, segments,
                   worker, tempPath, finalPath, disk, events>>
    /\ UNCHANGED <<nameVars, resumesLeft>>

\* ------------------------------------------------- quit and resume
\* app.quit(), main.ts lines 401-405: the process ends and the next session
\* starts with an empty activeDownloads (line 323).  Every start() call and
\* worker is gone; of the fs.writeFile calls in flight at most one has
\* reached the file, whole or cut short.
Quit ==
    /\ activeDownloads
    /\ activeDownloads' = FALSE
    /\ pc' = [r \in Runs |-> IF pc[r] = "none" THEN "none" ELSE "done"]
    /\ worker' = [r \in Runs |-> [i \in Segs |-> NoWorker]]
    /\ pendingSaves' = {}
    /\ \/ UNCHANGED <<stateFile, torn>>
       \/ \E s \in pendingSaves, cut \in BOOLEAN :
              /\ stateFile' = <<s>>
              /\ torn' = cut
    /\ UNCHANGED <<originSize, faults, storm, startsLeft, pausesLeft,
                   ticksLeft, now, numConnections, totalBytes,
                   downloadedBytesPerChunk, isPaused, abortController, aborted,
                   lastTickTime, lastSaveTime, fileHandle, segments, tempPath,
                   finalPath, disk, events, nameVars, resumesLeft>>

\* startDownload, main.ts lines 436-498: a Downloader is constructed from
\* the options (constructor, lines 52-81), put into activeDownloads and
\* started (start(), lines 110-157).  The name handed over is the one the
\* earlier instance had at its last `start` (main.ts lines 458-462) or
\* saved in its record, which in this model is its fileName throughout.
Launch(options, name) ==
    LET c == Constructed(options)
        r == abortController + 1
    IN  /\ startsLeft > 0
        /\ startsLeft' = startsLeft - 1
        /\ numConnections' = c.numConnections
        /\ downloadedBytesPerChunk' = c.downloadedBytesPerChunk
        /\ totalBytes' = c.totalBytes
        /\ optFileName' = name
        /\ fileName' = ConstructedName(name, urlName)
        /\ activeDownloads' = TRUE
        /\ lastSaveTime' = 0
        /\ worker' = [q \in Runs |->
                         [i \in 0..(c.numConnections - 1) |-> NoWorker]]
        /\ \E dt \in 0..Min(1, ticksLeft) :
            /\ ticksLeft' = ticksLeft - dt
            /\ now' = now + dt * TickMs
        /\ isPaused' = FALSE
        /\ abortController' = r
        /\ lastTickTime' = now'
        /\ IF c.totalBytes = 0
           THEN /\ pc' = [pc EXCEPT ![r] = "probe"]
                /\ UNCHANGED <<events, pendingSaves, faults>>
           ELSE PrepareWith(r, c, FALSE)
        /\ UNCHANGED <<originSize, storm, pausesLeft, aborted, fileHandle,
                       segments, tempPath, finalPath, disk, stateFile, torn,
                       urlName, dispositionName>>

\* The resume-download handler for a uuid not in activeDownloads, main.ts
\* lines 516-533 (the history keeps the entry), once the calls of an
\* earlier instance have ended: a record that parses rebuilds the
\* Downloader, one that does not is logged and nothing else, a missing one
\* starts afresh.
ResumeDownload ==
    /\ ~activeDownloads
    /\ \A r \in Runs : pc[r] \in {"none", "done"}
    /\ resumesLeft > 0
    /\ resumesLeft' = resumesLeft - 1
    /\ \/ /\ stateFile # <<>>
          /\ ~torn
          /\ Launch(Parse(Stringify(stateFile[1])), fileName)
       \/ /\ stateFile # <<>>
          /\ torn
          /\ UNCHANGED <<originSize, faults, storm, startsLeft, pausesLeft,
                         ticksLeft, now, activeDownloads, numConnections,
                         totalBytes, downloadedBytesPerChunk, isPaused,
                         abortController, aborted, lastTickTime, lastSaveTime,
                         pc, fileHandle, segments, worker, fsVars, events,
                         nameVars, torn>>
       \/ /\ stateFile = <<>>
          /\ Launch(NoOptions, fileName)

\* ---------------------------------------------------------- the system
Next ==
    \/ Start
    \/ \E r \in Runs : ProbeDone(r)
    \/ \E r \in Runs : ProbeFail(r)
    \/ \E r \in Runs : OpenDone(r)
    \/ \E r \in Runs : OpenFail(r)
    \/ \E r \in Runs, i \in Segs : ResponseArrives(r, i)
    \/ \E r \in Runs, i \in Segs : RequestFails(r, i)
    \/ \E r \in Runs, i \in Segs, n \in 1..MaxChunk : BufferArrives(r, i, n)
    \/ \E r \in Runs, i \in Segs : WriteDone(r, i)
    \/ \E r \in Runs, i \in Segs : RetryAfterDelay(r, i)
    \/ Pause
    \/ \E r \in Runs : CloseDone(r)
    \/ \E r \in Runs : CloseAfterError(r)
    \/ \E s \in pendingSaves : SaveLands(s)

Spec == Init /\ [][Next]_vars

\* ------------------------------------------------- the planner alone
\* A Downloader constructed with the option totalBytes (line 72) and started
\* once against a quiet origin: start() up to the dispatch of downloadParallel.
InitPlan ==
    \E T \in 0..PlanMaxT, N \in 1..PlanMaxN :
        InitWith(T, N, T, 0, -1, 1, 0, 0)

NextPlan ==
    \/ Start
    \/ \E r \in Runs : ProbeDone(r)
    \/ \E r \in Runs : OpenDone(r)

SpecPlan == InitPlan /\ [][NextPlan]_vars

\* ---------------------------------------------- the storming origin alone
NextStorm ==
    \/ Start
    \/ \E r \in Runs : ProbeDone(r)
    \/ \E r \in Runs : OpenDone(r)
    \/ \E r \in Runs, i \in Segs : ResponseArrives(r, i)
    \/ \E r \in Runs, i \in Segs : RequestFails(r, i)
    \/ \E r \in Runs, i \in Segs, n \in 1..MaxChunk : BufferArrives(r, i, n)
    \/ \E r \in Runs, i \in Segs : WriteDone(r, i)
    \/ \E r \in Runs, i \in Segs : RetryAfterDelay(r, i)
    \/ Pause
    \/ \E r \in Runs : CloseDone(r)
    \/ \E r \in Runs : CloseAfterError(r)
    \/ \E s \in pendingSaves : SaveLands(s)

SpecStorm == InitStorm /\ [][NextStorm]_vars

\* --------------------------------------------------- a single start() call
\* The same program with start() called once on the instance: no
\* resume-download reaches it (main.ts lines 508-511 never run).
InitOnce ==
    \E T \in 0..MaxT, N \in 1..MaxN :
        InitWith(T, N, 0, MaxFaults, -1, 1, MaxPauses, MaxTicks)

SpecOnce == (InitOnce \/ InitStorm) /\ [][Next]_vars

\* ------------------------------------------------- a clock that runs on
\* The same program against a faultless origin, with a clock that advances
\* several times while the workers write.
InitThrottle ==
    \E T \in 1..MaxT, N \in 1..MaxN :
        InitWith(T, N, 0, 0, -1, MaxStarts, MaxPauses, ThrottleTicks)

NextThrottle ==
    \/ Start
    \/ \E r \in Runs : ProbeDone(r)
    \/ \E r \in Runs : OpenDone(r)
    \/ \E r \in Runs, i \in Segs : ResponseArrives(r, i)
    \/ \E r \in Runs, i \in Segs, n \in 1..MaxChunk : BufferArrives(r, i, n)
    \/ \E r \in Runs, i \in Segs : WriteDone(r, i)
    \/ Pause
    \/ \E r \in Runs : CloseDone(r)
    \/ \E s \in pendingSaves : SaveLands(s)

SpecThrottle == InitThrottle /\ [][NextThrottle]_vars

\* ------------------------------------------------- the naming alone
\* startDownload with every combination of a caller-supplied name, a URL
\* path and a Content-Disposition header, up to the dispatch of the workers.
InitName ==
    \E T \in 0..MaxT, N \in 1..MaxN, opt \in CallerNames, url \in UrlNames,
       disposition \in DispositionNames :
        /\ InitCore(T, N, 0, 0, -1, 1, 0, 0)
        /\ InitNames(opt, url, disposition)
        /\ resumesLeft = 0

NextName ==
    \/ Start
    \/ \E r \in Runs : ProbeDone(r)
    \/ \E r \in Runs : OpenDone(r)

SpecName == InitName /\ [][NextName]_vars

\* ------------------------------------------------- sessions that end
\* A faultless origin, and a user who pauses, quits the application and
\* asks for the download to be resumed in the next session.
InitResume ==
    \E T \in 0..MaxT, N \in 1..MaxN :
        /\ InitCore(T, N, 0, 0, -1, MaxStarts, MaxPauses, 0)
        /\ InitNames(NoName, FileZip, NoName)
        /\ resumesLeft = MaxResumes

NextResume ==
    \/ Start
    \/ \E r \in Runs : ProbeDone(r)
    \/ \E r \in Runs : OpenDone(r)
    \/ \E r \in Runs, i \in Segs : ResponseArrives(r, i)
    \/ \E r \in Runs, i \in Segs, n \in 1..MaxChunk : BufferArrives(r, i, n)
    \/ \E r \in Runs, i \in Segs : WriteDone(r, i)
    \/ Pause
    \/ \E r \in Runs : CloseDone(r)
    \/ \E s \in pendingSaves : SaveLands(s)
    \/ Quit
    \/ ResumeDownload

SpecResume == InitResume /\ [][NextResume]_vars

\* ------------------------------------------------- nothing goes wrong
\* One start() call against a faultless origin, never paused.
InitQuiet ==
    \E T \in 0..MaxT, N \in 1..MaxN :
        InitWith(T, N, 0, 0, -1, 1, 0, MaxTicks)

NextQuiet ==
    \/ Start
    \/ \E r \in Runs : ProbeDone(r)
    \/ \E r \in Runs : OpenDone(r)
    \/ \E r \in Runs, i \in Segs : ResponseArrives(r, i)
    \/ \E r \in Runs, i \in Segs, n \in 1..MaxChunk : BufferArrives(r, i, n)
    \/ \E r \in Runs, i \in Segs : WriteDone(r, i)
    \/ \E r \in Runs : CloseDone(r)
    \/ \E s \in pendingSaves : SaveLands(s)

SpecQuiet == InitQuiet /\ [][NextQuiet]_vars

\* ------------------------------------------------- responses cut short
\* One start() call, never paused, against an origin whose only fault is to
\* end a ranged response before the last byte asked for.
InitShort ==
    \E T \in 1..MaxT, N \in 1..MaxN :
        InitWith(T, N, 0, MaxFaults, -1, 1, 0, MaxTicks)

NextShort ==
    \/ Start
    \/ \E r \in Runs : ProbeDone(r)
    \/ \E r \in Runs : OpenDone(r)
    \/ \E r \in Runs, i \in Segs : ResponseArrives(r, i)
    \/ \E r \in Runs, i \in Segs, n \in 1..MaxChunk : BufferArrives(r, i, n)
    \/ \E r \in Runs, i \in Segs : StreamEnds(r, i)
    \/ \E r \in Runs, i \in Segs : WriteDone(r, i)
    \/ \E r \in Runs : CloseDone(r)
    \/ \E s \in pendingSaves : SaveLands(s)

SpecShort == InitShort /\ [][NextShort]_vars

\* ------------------------------------------------- counters handed in
\* start-download (main.ts lines 419-427) hands the caller's options to the
\* constructor: here numConnections and a downloadedBytesPerChunk at least
\* as long, the counters beyond numConnections possibly non-zero.  One
\* start() call, faultless origin, no pause.
InitOptions ==
    \E T \in 1..MaxT, N \in 1..MaxN, L \in 1..(MaxN + 1),
       extra \in 0..1 :
        /\ N <= L
        /\ InitConstructed(T,
               [numConnections |-> N, totalBytes |-> 0,
                downloadedBytesPerChunk |->
                    [i \in 0..(L - 1) |-> IF i < N THEN 0 ELSE extra]],
               0, -1, 1, 0, MaxTicks)
        /\ InitNames(NoName, FileZip, NoName)
        /\ resumesLeft = 0

SpecOptions == InitOptions /\ [][NextQuiet]_vars

\* ------------------------------------------------- the event loop runs
\* The callbacks the event loop runs when they are ready: settled requests
\* and I/O completions, expired timers.  A request of the storming origin
\* settles by failing.
Progress ==
    \/ \E r \in Runs : ProbeDone(r)
    \/ \E r \in Runs : OpenDone(r)
    \/ \E r \in Runs, i \in Segs : ResponseArrives(r, i)
    \/ \E r \in Runs, i \in Segs : RequestFails(r, i)
    \/ \E r \in Runs, i \in Segs, n \in 1..MaxChunk : BufferArrives(r, i, n)
    \/ \E r \in Runs, i \in Segs : WriteDone(r, i)
    \/ \E r \in Runs, i \in Segs : RetryAfterDelay(r, i)
    \/ \E r \in Runs : CloseDone(r)
    \/ \E r \in Runs : CloseAfterError(r)
    \/ \E s \in pendingSaves : SaveLands(s)

\* A single start() call under an event loop that does not stall: some
\* ready callback runs as long as one is ready.
SpecOnceFair == SpecOnce /\ WF_vars(Progress)

\* ------------------------------------------------- never paused
\* pause() is never called: start() called up to MaxStarts times on the
\* instance against an origin that fails now and then, or once against an
\* origin that rejects one segment throughout, under an event loop that
\* does not stall.
InitNoPause ==
    \/ \E T \in 0..MaxT, N \in 1..MaxN :
           InitWith(T, N, 0, MaxFaults, -1, MaxStarts, 0, 0)
    \/ \E T \in 1..MaxT, N \in 1..MaxN, k \in 0..(MaxN - 1) :
           /\ k < N
           /\ SegStart(T, N, k) <= SegEnd(T, N, k)
           /\ InitWith(T, N, 0, 0, k, 1, 0, 0)

NextNoPause ==
    \/ Start
    \/ \E r \in Runs : ProbeDone(r)
    \/ \E r \in Runs : ProbeFail(r)
    \/ \E r \in Runs : OpenDone(r)
    \/ \E r \in Runs : OpenFail(r)
    \/ \E r \in Runs, i \in Segs : ResponseArrives(r, i)
    \/ \E r \in Runs, i \in Segs : RequestFails(r, i)
    \/ \E r \in Runs, i \in Segs, n \in 1..MaxChunk : BufferArrives(r, i, n)
    \/ \E r \in Runs, i \in Segs : WriteDone(r, i)
    \/ \E r \in Runs, i \in Segs : RetryAfterDelay(r, i)
    \/ \E r \in Runs : CloseDone(r)
    \/ \E r \in Runs : CloseAfterError(r)
    \/ \E s \in pendingSaves : SaveLands(s)

SpecNoPause == InitNoPause /\ [][NextNoPause]_vars /\ WF_vars(Progress)

\* ================================================================ claims

\* C2 (Coverage): the segments downloadParallel computes for totalBytes T
\* and numConnections N are contiguous, never of negative size, start at 0,
\* end at T - 1, and every offset of [0, T) lies in exactly one of them.
C2_Coverage ==
    segments # <<>> =>
        /\ Len(segments) = numConnections
        /\ segments[1].start = 0
        /\ segments[numConnections].end = totalBytes - 1
        /\ \A k \in 1..numConnections :
               segments[k].start <= segments[k].end + 1
        /\ \A k \in 1..(numConnections - 1) :
               segments[k].end + 1 = segments[k + 1].start
        /\ \A o \in 0..(totalBytes - 1) :
               Cardinality({k \in 1..numConnections :
                   segments[k].start <= o /\ o <= segments[k].end}) = 1

\* A plan with several segments whose last one absorbs a remainder.
C2_Witness ==
    /\ segments # <<>>
    /\ numConnections > 1
    /\ totalBytes > numConnections
    /\ totalBytes % numConnections # 0

Written(file, T, i) ==
    Cardinality({o \in SegStart(T, numConnections, i)..SegEnd(T, numConnections, i) :
                    file[o] # 0})

SegSize(T, i) ==
    SegEnd(T, numConnections, i) - SegStart(T, numConnections, i) + 1

LastEvent == events[Len(events)]

\* C1 (Resume faithfulness) as claimed: in the step that renames the temp
\* file to the final path, every offset of [0, T) of the temp file holds
\* the origin's byte for that offset.
C1_ResumeFaithful ==
    [][(finalPath' # finalPath /\ finalPath' # 0) =>
          \A o \in 0..(originSize - 1) : disk[tempPath][o] = OriginByte(o)]_vars

\* C4 as claimed: a retry (the request issued when a backoff sleep ends)
\* asks for the range that starts at start_i + downloaded_i as the counter
\* stands at that moment.
C4_RetryResumes ==
    [][\A r \in Runs : \A i \in Segs :
          (worker[r][i].phase = "sleep" /\ worker'[r][i].phase = "req") =>
              worker'[r][i].start =
                  SegStart(totalBytes, numConnections, i)
                      + downloadedBytesPerChunk[i]]_vars

\* C5 as claimed: every counter stays within its segment's size, and so the
\* totals reported by progress events and stored in the resume record never
\* exceed T.
C5_CountersBounded ==
    /\ \A i \in Segs :
          /\ 0 <= downloadedBytesPerChunk[i]
          /\ downloadedBytesPerChunk[i] <= SegSize(totalBytes, i)
    /\ \A k \in 1..Len(events) :
          events[k].type = "progress" => events[k].total <= totalBytes
    /\ \A s \in pendingSaves \cup {stateFile[k] : k \in 1..Len(stateFile)} :
          TotalDownloaded(s.downloadedBytesPerChunk) <= s.totalBytes

\* C6 as claimed: the observer's log is a sequence of rounds, each one
\* `start`, then `progress` events, then one of `complete`, `error`,
\* `paused`: nothing but `start` opens a round or follows a terminal event.
C6_EventOrder ==
    \A k \in 1..Len(events) :
        IF events[k].type = "start"
        THEN k = 1 \/ events[k - 1].type \in {"complete", "error", "paused"}
        ELSE k > 1 /\ events[k - 1].type \in {"start", "progress"}

\* C7 (Cleanup on success) as claimed: once `complete` has been emitted,
\* neither the temp file nor the resume record exists.
C7_CleanAfterComplete ==
    (\E k \in 1..Len(events) : events[k].type = "complete") =>
        /\ tempPath = 0
        /\ stateFile = <<>>

\* C8 (Preservation on non-success) as claimed, read in the code's favour:
\* when the last event is `error` or `paused`, a resume record is on disk
\* or on its way there, and a temp file that was opened is still in place.
C8_PreservedAfterFailure ==
    (events # <<>> /\ LastEvent.type \in {"error", "paused"}) =>
        /\ stateFile # <<>> \/ pendingSaves # {}
        /\ (\E r \in Runs : fileHandle[r] # 0) => tempPath # 0

\* C9 as claimed: a snapshot taken by saveState gives no segment more bytes
\* than the temp file holds of that segment when the snapshot is taken.
C9_SnapshotNotAhead ==
    [][\A s \in pendingSaves' \ pendingSaves : \A i \in Segs :
          s.downloadedBytesPerChunk[i] <=
              IF tempPath' = 0 THEN 0
              ELSE Written(disk'[tempPath'], s.totalBytes, i)]_vars

\* C10 as claimed: a start() call whose signal was aborted (pause() came
\* while it ran) emits no `error`.
C10_NoErrorWhenPaused ==
    [][(Len(events') > Len(events) /\ events'[Len(events')].type = "error") =>
          events'[Len(events')].by \notin aborted]_vars

\* The pause() calls made so far (the budget Init hands out, less what is left).
PauseCalls ==
    (IF storm = -1 THEN MaxPauses ELSE Min(1, MaxPauses)) - pausesLeft

\* The number of `paused` events the observer has received.
PausedEvents ==
    Cardinality({k \in 1..Len(events) : events[k].type = "paused"})

\* A worker that has not returned: it awaits a response or a buffer, has a
\* write in flight, or sleeps in backoff.
Busy(w) == w.phase \in {"req", "stream", "write", "sleep"}

\* C11 as claimed: in the step that emits `paused`, no segment worker of a
\* start() call is still awaiting a buffer, writing, or sleeping in backoff.
C11_PausedAfterWorkers ==
    [][(Len(events') > Len(events)
            /\ events'[Len(events')].type = "paused") =>
          \A r \in Runs : \A i \in Segs : ~Busy(worker'[r][i])]_vars

\* C12 as claimed: the observer has received exactly one `paused` event for
\* every pause() call made.
C12_OnePausedPerPause == PausedEvents = PauseCalls

\* C13 as claimed: at most one worker that has not returned exists for a
\* segment index, whatever the number of start() calls on the instance.
C13_OneWorkerPerSegment ==
    \A i \in Segs : Cardinality({r \in Runs : Busy(worker[r][i])}) <= 1

\* C14 (Progress monotonicity): no step of the instance's life (a write, a
\* retry, pause(), a later start() on the same instance) lowers the counter
\* of any segment.
C14_Monotonic ==
    [][\A i \in Segs :
          downloadedBytesPerChunk'[i] >= downloadedBytesPerChunk[i]]_vars

\* Bytes counted in a call that was paused and started again.
C14_Witness ==
    /\ abortController = 2
    /\ aborted # {}
    /\ \E i \in Segs : downloadedBytesPerChunk[i] >= 2

\* C15 (Throttled emission): any two `progress` events of the log were
\* computed at clock readings at least 1000 ms apart, whatever the number of
\* workers and of pause/start cycles in between.
C15_Throttled ==
    \A k \in 1..Len(events) : \A l \in (k + 1)..Len(events) :
        (events[k].type = "progress" /\ events[l].type = "progress") =>
            events[l].at - events[k].at >= ProgressIntervalMs

\* Two `progress` events with a pause() and a second start() around them.
C15_Witness ==
    /\ Cardinality({k \in 1..Len(events) : events[k].type = "progress"}) >= 2
    /\ aborted # {}
    /\ abortController = 2

\* C16 (Backoff bound): the delay a worker sleeps after failed attempt a is
\* min(1000 * 1.5^a, 10000) ms: it never exceeds 10000 ms and is not below
\* the delay slept after attempt a - 1.
C16_BackoffBound ==
    \A r \in Runs : \A i \in Segs :
        LET w == worker[r][i]
            a == w.attempt
        IN  w.phase = "sleep" =>
              /\ w.delay <= DelayGrain * 10000
              /\ (1000 * 3^a <= 10000 * 2^a) =>
                     w.delay * 2^a = DelayGrain * 1000 * 3^a
              /\ (1000 * 3^a > 10000 * 2^a) => w.delay = DelayGrain * 10000
              /\ a > 1 => w.delay >= BackoffDelay(a - 1)

\* A worker asleep after its 10th failed attempt, the cap in force.
C16_Witness ==
    \E r \in Runs : \E i \in Segs :
        /\ worker[r][i].phase = "sleep"
        /\ worker[r][i].attempt = maxRetries
        /\ worker[r][i].delay = DelayGrain * BackoffCapMs

\* C20 as claimed: a start() call emits `complete` only if no pause() aborted
\* the controller that call installed and every worker it dispatched has
\* returned; this also when start() was called again meanwhile.
C20_CompleteOnlyUnpaused ==
    [][(Len(events') > Len(events)
            /\ events'[Len(events')].type = "complete") =>
          LET r == events'[Len(events')].by
          IN  /\ r \notin aborted
              /\ \A i \in Segs : ~Busy(worker[r][i])]_vars

\* C18 as claimed: the name is chosen in the order caller-supplied name,
\* Content-Disposition filename (once the probe has answered), last URL path
\* segment, `downloaded_file`; a caller-supplied name is never replaced.
C18_NamePriority ==
    fileName =
        IF optFileName # NoName THEN optFileName
        ELSE IF dispositionName # NoName /\ totalBytes = originSize
                    /\ pc[1] \notin {"none", "probe"}
             THEN sanitizeFileName(dispositionName)
        ELSE IF urlName # NoName THEN sanitizeFileName(urlName)
        ELSE DownloadedFile

C19_FreshOnParseFailure ==
    [][(resumesLeft' < resumesLeft /\ stateFile # <<>> /\ torn) =>
          /\ activeDownloads'
          /\ abortController' = abortController + 1]_vars

\* C21 (as the code has it): when N > T the chunk size is 0, so the first
\* N - 1 segments are empty and not dispatched, and the last segment is
\* [0, T - 1]: it carries all T bytes and is dispatched exactly when T > 0.
C21_LastSegmentTakesAll ==
    \A r \in Runs :
        (pc[r] \in {"download", "close"} /\ numConnections > totalBytes) =>
            /\ \A k \in 1..(numConnections - 1) :
                   /\ segments[k].end = segments[k].start - 1
                   /\ worker[r][k - 1].phase = "none"
            /\ segments[numConnections].start = 0
            /\ segments[numConnections].end = totalBytes - 1
            /\ totalBytes > 0 <=> worker[r][numConnections - 1].phase = "req"

\* Workers dispatched for fewer bytes than connections, some bytes to fetch.
C21_Witness ==
    \E r \in Runs :
        /\ pc[r] = "download"
        /\ numConnections > totalBytes
        /\ totalBytes > 1

\* C21 as claimed: when N > T the first T segments have exactly 1 byte each
\* and are dispatched, the remaining N - T are not.
C21_FirstSegmentsOneByte ==
    \A r \in Runs :
        (pc[r] \in {"download", "close"} /\ numConnections > totalBytes) =>
            /\ \A k \in 1..totalBytes :
                   /\ segments[k].end = segments[k].start
                   /\ worker[r][k - 1].phase = "req"
            /\ \A k \in (totalBytes + 1)..numConnections :
                   worker[r][k - 1].phase = "none"

\* The types of the events emitted so far.
EventTypes == [k \in 1..Len(events) |-> events[k].type]

\* C22: against an origin of size 0, a start() call that nothing disturbs
\* issues no ranged request and emits no `error`; when it has ended, an
\* empty temp file was created and renamed to the final path and `complete`
\* followed `start`; the step that emits `complete` removes the resume
\* record.
C22_EmptyCompletes ==
    /\ [](originSize = 0 =>
            /\ \A r \in Runs, i \in Segs :
                   /\ worker[r][i].phase = "none"
                   /\ worker[r][i].requests = 0
            /\ \A k \in 1..Len(events) : events[k].type # "error"
            /\ \A r \in Runs : pc[r] = "done" =>
                   /\ EventTypes = <<"start", "complete">>
                   /\ tempPath = 0
                   /\ finalPath = r
                   /\ \A o \in Offsets : disk[finalPath][o] = 0)
    /\ [][(originSize = 0 /\ Len(events') > Len(events)
               /\ events'[Len(events')].type = "complete")
            => stateFile' = <<>>]_vars

\* A start() call against an origin of size 0 has ended.
C22_Witness ==
    /\ originSize = 0
    /\ \E r \in Runs : pc[r] = "done"
    /\ finalPath # 0

\* Segment i has every byte counted: start_i + downloaded_i > end_i.
SegmentComplete(i) ==
    SegStart(totalBytes, numConnections, i) + downloadedBytesPerChunk[i]
        > SegEnd(totalBytes, numConnections, i)

\* C23: when a start() call dispatches its workers, a segment with
\* start_i + downloaded_i > end_i gets no worker and no ranged request; if
\* every segment is complete the call goes straight on to close and rename.
C23_CompleteNotRequested ==
    [][\A r \in Runs :
          (pc[r] = "open" /\ pc'[r] \in {"download", "close", "closeErr"}) =>
              /\ \A i \in Segs : SegmentComplete(i) =>
                     /\ worker'[r][i].phase = "none"
                     /\ worker'[r][i].requests = 0
              /\ (\A i \in Segs : SegmentComplete(i)) => pc'[r] = "close"]_vars

\* A later start() call found every segment of a non-empty file complete,
\* dispatched nothing and emitted `complete`.
C23_Witness ==
    /\ totalBytes > 0
    /\ pc[2] = "done"
    /\ \A i \in Segs : SegmentComplete(i)
    /\ \A i \in Segs : worker[2][i].phase = "none"
    /\ Len(events) > 0
    /\ events[Len(events)] = Ev("complete", 2, 0)
    /\ \E k \in 1..Len(events) : events[k].type = "paused"

\* The network requests call r has issued: its probe, its ranged requests.
OnTheWire(r) ==
    \/ pc[r] = "probe"
    \/ \E i \in Segs : worker[r][i].requests > 0

\* C24: no start() call has a network request out, the probe of a fresh job
\* included, before its saveState was invoked (a snapshot is in flight or
\* on disk).
C24_SavedBeforeTraffic ==
    \A r \in Runs :
        OnTheWire(r) => pendingSaves # {} \/ stateFile # <<>>

\* C25: while the abort signal is set and start() is not called again, a
\* supervisor that is in its backoff sleep returns when the timer fires, no
\* worker issues a ranged request or begins another sleep, none raises, and
\* no `error` is emitted.
C25_RetryStopsOnAbort ==
    [][(abortController \in aborted) =>
          ((\A r \in Runs, i \in Segs :
               /\ worker'[r][i].requests <= worker[r][i].requests
               /\ (worker'[r][i].phase = "failed") =>
                      (worker[r][i].phase = "failed")
               /\ (worker[r][i].phase = "sleep") =>
                      (worker'[r][i].phase \in {"sleep", "done"})
               /\ (worker'[r][i].phase = "sleep") =>
                      (worker[r][i].phase = "sleep"))
           /\ (\A k \in 1..Len(events') :
                  (events'[k].type = "error") =>
                      (k <= Len(events) /\ events[k].type = "error")))]_vars

\* pause() found a supervisor in its backoff sleep.
C25_Witness ==
    /\ abortController \in aborted
    /\ \E r \in Runs, i \in Segs :
           /\ worker[r][i].phase = "sleep"
           /\ worker[r][i].requests > 0

\* C26: `complete` is never emitted while some segment has
\* start_i + downloaded_i <= end_i: no worker returned success after
\* receiving fewer bytes than its range.
C26_NoShortSuccess ==
    (\E k \in 1..Len(events) : events[k].type = "complete") =>
        \A i \in Segs : SegmentComplete(i)

\* C27: while the abort signal of the instance is set, no worker begins a
\* positioned write, and a counter changes only when a write that was in
\* flight completes, by the length of that write's buffer and once.
C27_NoWriteAfterAbort ==
    [][(abortController \in aborted /\ abortController' = abortController) =>
          ((\A r \in Runs, i \in Segs :
               (worker'[r][i].phase = "write") =>
                   (worker[r][i].phase = "write"
                        /\ worker'[r][i].buf = worker[r][i].buf))
           /\ (\A i \in Segs :
                  (downloadedBytesPerChunk'[i] # downloadedBytesPerChunk[i]) =>
                      (\E r \in Runs :
                          /\ worker[r][i].phase = "write"
                          /\ worker'[r][i].phase # "write"
                          /\ downloadedBytesPerChunk'[i] =
                                 downloadedBytesPerChunk[i]
                                     + Len(worker[r][i].buf))))]_vars

\* The signal is set while a positioned write is in flight, and while a
\* worker bound to an earlier signal is still reading its stream.
C27_Witness ==
    /\ abortController \in aborted
    /\ \E r \in Runs, i \in Segs : worker[r][i].phase = "write"
    /\ \E r \in Runs, i \in Segs : worker[r][i].phase = "stream"

\* C28: the name sanitizeFileName returned for the Content-Disposition
\* filename is made of characters of [A-Za-z0-9._-] only, is at most 100
\* characters long and ends with the extension of the input.
C28_SanitizedFits ==
    (dispositionName # NoName /\ \E r \in Runs : pc[r] \in {"open", "download",
                                                          "close"}) =>
        LET ext == ExtName(Replaced(dispositionName))
        IN  /\ \A k \in 1..Len(fileName) : fileName[k] \in SafeChars
            /\ Len(fileName) <= MaxFileNameLength
            /\ Len(fileName) >= Len(ext)
            /\ SubSeq(fileName, Len(fileName) - Len(ext) + 1, Len(fileName))
                   = ext

\* The resume records written so far: in flight or on disk.
RecordsWritten == pendingSaves \cup {stateFile[k] : k \in 1..Len(stateFile)}

\* C29: every resume record written carries exactly numConnections
\* counters, and the instance plans and counts with exactly numConnections
\* counters, whatever the options of the constructor were.
C29_RecordLengthMatches ==
    /\ \A s \in RecordsWritten :
           Cardinality(DOMAIN s.downloadedBytesPerChunk) = s.numConnections
    /\ (\E r \in Runs : pc[r] \in {"download", "close"}) =>
           Cardinality(DOMAIN downloadedBytesPerChunk) = numConnections

\* C30: a worker of a start() call that pause() has cancelled, and that has
\* not returned yet, issues no further ranged request and begins no further
\* positioned write, whether or not start() was called again meanwhile.
C30_CancelledStaysCancelled ==
    [][\A r \in Runs, i \in Segs :
          (r \in aborted /\ Busy(worker[r][i])) =>
              /\ worker'[r][i].requests <= worker[r][i].requests
              /\ (worker'[r][i].phase = "write") =>
                     (worker[r][i].phase = "write")]_vars

\* Call r has emitted `error`.
Errored(r) == \E k \in 1..Len(events) : events[k] = Ev("error", r, 0)

\* C31: once a start() call has emitted `error`, none of its workers issues
\* a further ranged request, begins a backoff sleep for a retry, or begins
\* a positioned write.
C31_AbortedAfterError ==
    [][\A r \in Runs, i \in Segs :
          Errored(r) =>
              /\ worker'[r][i].requests <= worker[r][i].requests
              /\ (worker'[r][i].phase = "sleep") =>
                     (worker[r][i].phase = "sleep")
              /\ (worker'[r][i].phase = "write") =>
                     (worker[r][i].phase = "write")]_vars

\* Call r has returned after pause(): every worker has returned, the handle
\* is closed, neither `complete` nor `error` was emitted and no file was
\* renamed to the final path.
SettledPaused(r) ==
    /\ pc[r] = "done"
    /\ \A i \in Segs : ~Busy(worker[r][i])
    /\ \A k \in 1..Len(events) : events[k].type \notin {"complete", "error"}
    /\ finalPath = 0

\* C32: if pause() is called while a start() call is under way and start()
\* is not called again, then, the event loop running its ready callbacks,
\* the call eventually has returned with every worker returned and the
\* handle closed, without `complete`, `error` or a rename, and stays so.
C32_PauseSettles ==
    (1 \in aborted /\ pc[1] \notin {"none", "done"}) ~> [] SettledPaused(1)

\* A call that pause() caught with its temp file open has returned.
C32_Witness ==
    /\ SettledPaused(1)
    /\ 1 \in aborted
    /\ tempPath # 0
    /\ \E i \in Segs : downloadedBytesPerChunk[i] > 0

\* Call r has emitted `complete` or `error`.
Ended(r) ==
    \E k \in 1..Len(events) :
        /\ events[k].type \in {"complete", "error"}
        /\ events[k].by = r

\* C33: with pause() never called and every request delivering or failing,
\* every start() call eventually emits `complete` or `error`; when it has,
\* its handle is closed: the call is past its close and no positioned write
\* of its workers is in flight.
C33_Terminates ==
    /\ \A r \in Runs : (pc[r] # "none") ~> Ended(r)
    /\ [](\A r \in Runs : Ended(r) =>
              /\ pc[r] = "done"
              /\ \A i \in Segs : worker[r][i].phase # "write")

\* Two overlapping start() calls have both ended, one of them after a
\* segment ran out of retries or a request failed.
C33_Witness ==
    /\ Ended(1)
    /\ Ended(2)
    /\ fileHandle[1] # 0
    /\ fileHandle[2] # 0
    /\ \E k \in 1..Len(events) : events[k].type = "error"
    /\ \E k \in 1..Len(events) : events[k].type = "complete"

====
